---- MODULE Spec2Model ----
(***************************************************************************)
(* Model of logmerger's merge engine: LogMergerApplication                 *)
(* (_merge_log_file_lines), MultilineLogCollapser / NewLogLineDetector,    *)
(* WindowedSort and Merger.                                                *)
(*                                                                         *)
(* A log line is modelled after the TimestampedLineTransformer has been    *)
(* applied to it: its timestamp (NoTs when the line does not start with a  *)
(* timestamp) and its text, which is identified by the line's position in  *)
(* its file.  Timestamps are small integers ("ticks"); TicksPerMs of them  *)
(* make one millisecond of the formatted timestamp column.                 *)
(*                                                                         *)
(* The transformer itself (the built-in TimestampedLineTransformer         *)
(* classes, the choice of one from a file's first line, and its call on    *)
(* each line) is followed for one file on lines of text in SpecTransform.  *)
(* LogMergerApplication.__init__ with the class-level registry of custom   *)
(* transformers, and a second application made in the same process, are    *)
(* followed in SpecConfig.                                                 *)
(***************************************************************************)
EXTENDS Integers, Sequences, FiniteSets, TLC

VARIABLES
    lines,                          \* per file: the timestamp (or NoTs) of each of its lines
    start_time, end_time,           \* LogMergerApplication.start_time / end_time
    time_clip,                      \* LogMergerApplication.time_clip: which filter the collapsers get
    autoclip,                       \* LogMergerApplication.autoclip
    append_non_timestamped_lines,   \* LogMergerApplication.append_non_timestamped_lines
    pc,                             \* "start", "merge", "done" or "error"
    status,                         \* per file: "new" (generator not started), "active", "done"
    seq_pos,                        \* per file: number of groups WindowedSort has taken from seq_iter
    lookahead_buffer,               \* per file: WindowedSort.lookahead_buffer
    last_line_key,                  \* per file: WindowedSort.last_line_key
    seq_consumed,                   \* per file: WindowedSort.seq_consumed
    emitted,                        \* per file: the groups WindowedSort.__next__ has returned, in order
    entries,                        \* per file: the (timestamp, log_body) pairs the collapser has yielded
    heads,                          \* per file: the entry heapq.merge currently holds for it
    group_open, group_key,          \* the groupby group the record loop is consuming
    line_dict,                      \* the record under construction
    records,                        \* the dicts yielded by _merge_log_file_lines
    merged,                         \* the labelled entries heapq.merge has yielded, in order
    error,                          \* the exception raised to the caller, NoError if none
    raw_lines,                      \* the text of the lines of one file, before any transformer
    ctime_year,                     \* the year of that file's creation time (stat().st_ctime)
    xformer,                        \* the transformer made for that file: its class and file_stat
    xformed,                        \* what map(xformer, ...) has yielded so far for that file
    xpc,                            \* "idle", "sample", "lines" or "raised"
    config,                         \* the argparse namespace LogMergerApplication is made from
    custom_transformers,            \* TimestampedLineTransformer.custom_transformers (class attribute)
    run,                            \* how many applications this process has made from config
    first_run,                      \* the records of the first of them, NoRun until it is done
    merged_log_lines_table,         \* the viewer's table: the timestamp column of its rows
    cursor_row,                     \* DataTable.cursor_row, counted from 0
    current_goto_timestamp_string   \* the timestamp last asked for, NoTs if none yet

vars == <<lines, start_time, end_time, time_clip, autoclip, append_non_timestamped_lines,
          pc, status, seq_pos, lookahead_buffer, last_line_key, seq_consumed,
          emitted, entries, heads, group_open, group_key, line_dict, records, merged,
          error, raw_lines, ctime_year, xformer, xformed, xpc,
          config, custom_transformers, run, first_run,
          merged_log_lines_table, cursor_row, current_goto_timestamp_string>>

\* the variables of the transformer of one file
xvars == <<raw_lines, ctime_year, xformer, xformed, xpc>>
\* the variables of the process around one application
cvars == <<config, custom_transformers, run, first_run>>
\* the variables of the interactive viewer
ivars == <<merged_log_lines_table, cursor_row, current_goto_timestamp_string>>

-----------------------------------------------------------------------------
(* Bounds of the model *)

\* size of the lookahead of WindowedSort.  The source passes window=40; every
\* statement below is relative to this value, and the model takes a small one
\* so that files with more groups than the window are within MaxLen.
window == 3
\* longest file of the runs with one long file: two groups more than the window
MaxLen == window + 2
\* largest timestamp that occurs in a file: enough distinct timestamps for a group
\* to arrive after more than window groups with greater ones
MaxTs == window + 2
\* longest file of the runs with two short files
PairLen == 2
\* longest first file of the runs that clip by time
ClipLen == 3
\* timestamp ticks per millisecond (the source has 1000 microseconds)
TicksPerMs == 2

\* the files, in the order of the command line
Sources == {1, 2}

\* None
NoTs == -1
\* datetime.min
DtMin == 0
\* datetime.max
DtMax == MaxTs + 1
\* no entry / no key
NoEntry == [ts |-> NoTs, body |-> <<>>]

\* an exception as the caller sees it: its class, its message without the values
\* formatted into it, the file names the message holds, and whether it quotes a line
NoError == [exc |-> "none", msg |-> "", file_names |-> {}, quotes_line |-> FALSE]
\* ValueError(f"no match for any timestamp pattern in {s!r}")
NoMatchError == [exc |-> "ValueError", msg |-> "no match for any timestamp pattern in",
                 file_names |-> {}, quotes_line |-> TRUE]
\* ValueError(f"no timestamps found in log file {self.file_names[0]!r}")
NoTimestampsError == [exc |-> "ValueError", msg |-> "no timestamps found in log file",
                      file_names |-> {1}, quotes_line |-> FALSE]

Timestamps == 1..MaxTs
TsOrNone == Timestamps \cup {NoTs}
\* what a line of the short files holds: one timestamp more than the file has lines
PairTsOrNone == (1..(PairLen + 1)) \cup {NoTs}
\* what a line of the clipped files holds: one timestamp more than the first file has lines
ClipTsOrNone == (1..(ClipLen + 1)) \cup {NoTs}

SeqsUpTo(S, n) == UNION {[1..k -> S] : k \in 0..n}

Last(seq) == seq[Len(seq)]

-----------------------------------------------------------------------------
(* The per-file line pipeline: transform, raw time clip, grouping *)

\* map(xformer, map(str.rstrip, reader)): (timestamp or None, text) per line
Transformed(s) == [i \in 1..Len(lines[s]) |-> [ts |-> lines[s][i], text |-> i]]

\* the window taken as exclusive of its ends
RawTimeClipExclusive(line) == line.ts = NoTs \/ (start_time < line.ts /\ line.ts < end_time)

\* LogMergerApplication._raw_time_clip
RawTimeClip(line) == line.ts = NoTs \/ (start_time <= line.ts /\ line.ts <= end_time)

\* filter(self._raw_time_clip, ...)
Filtered(s) == SelectSeq(Transformed(s), RawTimeClip)

\* a detector that does not remember the last timestamp
NewLogLineDetectorNoCarry(ls) ==
    [i \in 1..Len(ls) |-> IF ls[i].ts # NoTs THEN ls[i].ts ELSE DtMin]

\* NewLogLineDetector.__call__ applied to each line in turn: the key of each line
NewLogLineDetector(ls) ==
    LET cur[i \in 0..Len(ls)] ==
            IF i = 0 THEN DtMin
            ELSE IF ls[i].ts # NoTs THEN ls[i].ts ELSE cur[i - 1]
    IN  [i \in 1..Len(ls) |-> cur[i]]

\* itertools.groupby(log_seq, key): runs of consecutive lines with equal key
RECURSIVE GroupBy(_, _)
GroupBy(ls, keys) ==
    IF ls = <<>> THEN <<>>
    ELSE LET rest == GroupBy(Tail(ls), Tail(keys))
         IN  IF rest # <<>> /\ rest[1].key = Head(keys)
             THEN <<[key |-> Head(keys), lines |-> <<Head(ls)>> \o rest[1].lines]>> \o Tail(rest)
             ELSE <<[key |-> Head(keys), lines |-> <<Head(ls)>>]>> \o rest

\* a pipeline in which every file's collapser is handed the lines of the first reader
GroupsOfFirstReader(s) == GroupBy(Filtered(1), NewLogLineDetector(Filtered(1)))

\* the seq handed to WindowedSort: ((a, list(b)) for a, b in groupby(log_seq, key=detector))
Groups(s) == GroupBy(Filtered(s), NewLogLineDetector(Filtered(s)))

-----------------------------------------------------------------------------
(* WindowedSort *)

RECURSIVE LinesWithKey(_, _)
LinesWithKey(temp, k) ==
    IF temp = <<>> THEN <<>>
    ELSE (IF Head(temp).key = k THEN Head(temp).lines ELSE <<>>) \o LinesWithKey(Tail(temp), k)

RECURSIVE SortedKeys(_)
SortedKeys(ks) ==
    IF ks = {} THEN <<>>
    ELSE LET m == CHOOSE x \in ks : \A y \in ks : x <= y
         IN  <<m>> \o SortedKeys(ks \ {m})

\* temp.sort(key) followed by groupby(temp, key) and reduce(add, ...):
\* one group per distinct key, in key order, lines in arrival order
SortAndMerge(temp) ==
    LET ks == SortedKeys({temp[i].key : i \in DOMAIN temp})
    IN  [j \in 1..Len(ks) |-> [key |-> ks[j], lines |-> LinesWithKey(temp, ks[j])]]

\* bisect.bisect_left(lookahead_buffer, k, key=key_function), 0-based result
RECURSIVE Bisect(_, _, _, _)
Bisect(buf, k, lo, hi) ==
    IF lo < hi
    THEN LET mid == (lo + hi) \div 2
         IN  IF buf[mid + 1].key < k THEN Bisect(buf, k, mid + 1, hi)
                                     ELSE Bisect(buf, k, lo, mid)
    ELSE lo

\* bisect.bisect_right: the place after the groups of key k
RECURSIVE BisectAfter(_, _, _, _)
BisectAfter(buf, k, lo, hi) ==
    IF lo < hi
    THEN LET mid == (lo + hi) \div 2
         IN  IF k < buf[mid + 1].key THEN BisectAfter(buf, k, lo, mid)
                                     ELSE BisectAfter(buf, k, mid + 1, hi)
    ELSE lo

BisectRight(buf, k) == BisectAfter(buf, k, 0, Len(buf))

BisectLeft(buf, k) == Bisect(buf, k, 0, Len(buf))

\* an insert that leaves the group in the buffer twice
ListInsertTwice(buf, idx, x) == SubSeq(buf, 1, idx) \o <<x, x>> \o SubSeq(buf, idx + 1, Len(buf))

\* list.insert(idx, x), idx 0-based
ListInsert(buf, idx, x) == SubSeq(buf, 1, idx) \o <<x>> \o SubSeq(buf, idx + 1, Len(buf))

\* the branch without the test for a buffered group of the same key
InsertOrMergeNoMerge(buf, new_line) ==
    ListInsert(buf, BisectLeft(buf, new_line.key), new_line)

\* the branch appending a group it cannot merge instead of inserting it in order
InsertOrMergeAppend(buf, new_line) ==
    LET idx == BisectLeft(buf, new_line.key)
    IN  IF idx < Len(buf) /\ buf[idx + 1].key = new_line.key
        THEN [buf EXCEPT ![idx + 1].lines = @ \o new_line.lines]
        ELSE Append(buf, new_line)

\* WindowedSort.__next__, the branch new_line_key <= last_line_key
InsertOrMerge(buf, new_line) ==
    LET idx == BisectLeft(buf, new_line.key)
    IN  IF idx < Len(buf) /\ buf[idx + 1].key = new_line.key
        THEN [buf EXCEPT ![idx + 1].lines = @ \o new_line.lines]
        ELSE ListInsert(buf, idx, new_line)

\* the flag WindowedSort.__init__ sets after filling its buffer
InitSeqConsumed(buf) == Len(buf) < window

-----------------------------------------------------------------------------
(* MultilineLogCollapser *)

\* the time_filter the collapser calls on a group's timestamp:
\* _time_clip_after_start, _time_clip_early_exit, or lambda x: True
TimeFilter(ts) ==
    CASE time_clip = "none" -> "yield"
      [] time_clip = "after_start" -> IF start_time <= ts THEN "yield" ELSE "skip"
      [] time_clip = "early_exit" ->
            IF ts > end_time THEN "break"
            ELSE IF start_time <= ts THEN "yield" ELSE "skip"

\* a body that keeps the lines without a timestamp whatever the option says
LogBodyKeepAll(ls) == [i \in 1..Len(ls) |-> ls[i].text]

\* "\n".join(line[1] for line in lines), after the include_non_timestamped_lines filter;
\* a body is the sequence of the joined texts
LogBody(ls) ==
    LET kept == IF append_non_timestamped_lines THEN ls
                ELSE SelectSeq(ls, LAMBDA l : l.ts # NoTs)
    IN  [i \in 1..Len(kept) |-> kept[i].text]

-----------------------------------------------------------------------------
(* Record assembly *)

\* ts.strftime("%Y-%m-%d %H:%M:%S.%f")[:23] if ts > datetime.min else "":
\* the timestamp cut to milliseconds; -1 stands for the empty string
FormatTimestamp(ts) == IF ts > DtMin THEN ts \div TicksPerMs ELSE -1

\* a record that starts from the columns of the record before it
NewLineDictKeep(n, ts) == [line |-> n, timestamp |-> FormatTimestamp(ts), key |-> ts,
                           cols |-> line_dict.cols]

\* {**initialize_row_dict(n, ts), **{}.fromkeys(self.file_names, "")}
\* key is the loop's variable timestamp (the group's key), kept beside the dict
NewLineDict(n, ts) == [line |-> n, timestamp |-> FormatTimestamp(ts), key |-> ts,
                       cols |-> [s \in Sources |-> <<>>]]

EmptyDict == [line |-> 0, timestamp |-> -1, key |-> NoTs, cols |-> [s \in Sources |-> <<>>]]

-----------------------------------------------------------------------------
(* TimestampedLineTransformer: the transformer of one file *)

\* longest file the transformer is followed for
MaxRawLen == 2
\* number of distinct instants a timestamp can spell
MaxInstant == 2
\* datetime.now().year
NowYear == 2

\* TimestampedLineTransformer.__subclasses__(), in definition order, when no
\* custom timestamp format is configured
BuiltinTransformers ==
    <<"YMDHMScommaF", "YMDHMSdotF", "YMDHMS", "YMDTHMScommaF", "YMDTHMSdotF", "YMDTHMS",
      "BDHMS", "PythonHttpServerLog", "HttpServerAccessLog",
      "FloatSecondsSinceEpoch", "MilliSecondsSinceEpoch", "SecondsSinceEpoch">>

\* the layout of timestamp text that the timestamp_pattern of a class accepts
PatternLayout(cls) ==
    CASE cls = "YMDHMScommaF" -> "Y-m-d H:M:S,f"
      [] cls = "YMDHMSdotF" -> "Y-m-d H:M:S.f"
      [] cls = "YMDHMS" -> "Y-m-d H:M:S"
      [] cls = "YMDTHMScommaF" -> "Y-m-dTH:M:S,f"
      [] cls = "YMDTHMSdotF" -> "Y-m-dTH:M:S.f"
      [] cls = "YMDTHMS" -> "Y-m-dTH:M:S"
      [] cls = "BDHMS" -> "b d H:M:S"
      [] cls = "PythonHttpServerLog" -> "d/b/Y H:M:S"
      [] cls = "HttpServerAccessLog" -> "d/b/Y:H:M:S z"
      [] cls = "FloatSecondsSinceEpoch" -> "s.f"
      [] cls = "MilliSecondsSinceEpoch" -> "ms"
      [] cls = "SecondsSinceEpoch" -> "s"

\* the layout of timestamp text that str_to_time of a class converts: its
\* strptime_format, or for the epoch classes its float() / int() lambda
StrptimeLayout(cls) ==
    CASE cls = "YMDHMScommaF" -> "Y-m-d H:M:S,f"
      [] cls = "YMDHMSdotF" -> "Y-m-d H:M:S.f"
      [] cls = "YMDHMS" -> "Y-m-d H:M:S"
      [] cls = "YMDTHMScommaF" -> "Y-m-dTH:M:S,f"
      [] cls = "YMDTHMSdotF" -> "Y-m-dTH:M:S.f"
      [] cls = "YMDTHMS" -> "Y-m-d H:M:S"
      [] cls = "BDHMS" -> "b d H:M:S"
      [] cls = "PythonHttpServerLog" -> "d/b/Y H:M:S"
      [] cls = "HttpServerAccessLog" -> "d/b/Y:H:M:S z"
      [] cls = "FloatSecondsSinceEpoch" -> "s.f"
      [] cls = "MilliSecondsSinceEpoch" -> "ms"
      [] cls = "SecondsSinceEpoch" -> "s"

\* the layouts whose pattern accepts "- [<timestamp>] " after any text, where
\* the others accept the timestamp at the start of the line only
BracketLayouts == {"d/b/Y H:M:S", "d/b/Y:H:M:S z"}
LeadLayouts == {PatternLayout(BuiltinTransformers[i]) : i \in 1..Len(BuiltinTransformers)}
                   \ BracketLayouts
\* the layouts of digits only, whose value always converts
EpochLayouts == {"s.f", "ms", "s"}

\* no timestamp text
NoStamp == [layout |-> "none", valid |-> TRUE, year |-> NoTs, t |-> NoTs]
\* timestamp text: its layout, whether its fields spell an existing date and
\* time, the year it spells (NoTs in the layout without a year) and the rest of
\* the instant it spells
Stamp(layout, valid, t) ==
    [layout |-> layout, valid |-> valid,
     year |-> (IF layout = "b d H:M:S" THEN NoTs ELSE NowYear - 1), t |-> t]
StampsOf(layouts) ==
    {Stamp(l, TRUE, t) : l \in layouts, t \in 1..MaxInstant}
        \cup {Stamp(l, FALSE, 1) : l \in layouts \ EpochLayouts}

\* a line of text: the timestamp it starts with and the bracketed timestamp it
\* holds (NoStamp where it has none).  The lines with both are those of a
\* proxy that logs the requests of a Python http.server with its own
\* "YYYY-MM-DD HH:MM:SS" in front.
RawLines ==
    [lead : StampsOf(LeadLayouts) \cup {NoStamp}, inner : {NoStamp}]
        \cup [lead : {NoStamp}, inner : StampsOf(BracketLayouts)]
        \cup {[lead |-> Stamp("Y-m-d H:M:S", TRUE, t), inner |-> Stamp("d/b/Y H:M:S", TRUE, u)] :
                  t \in 1..MaxInstant, u \in {MaxInstant}}

\* cls.match(s): re.match of the pattern of the class
Matches(cls, line) ==
    IF PatternLayout(cls) \in BracketLayouts
    THEN line.inner.layout = PatternLayout(cls)
    ELSE line.lead.layout = PatternLayout(cls)

\* m[self.timestamp_match_group]
MatchedStamp(cls, line) ==
    IF PatternLayout(cls) \in BracketLayouts THEN line.inner ELSE line.lead

\* whether str_to_time returns for the text, where otherwise it raises
Converts(cls, stamp) == StrptimeLayout(cls) = stamp.layout /\ stamp.valid

\* the ValueError datetime.strptime raises ("time data ... does not match
\* format ...", "day is out of range for month", ...)
StrToTimeError == [exc |-> "ValueError", msg |-> "time data does not match format",
                   file_names |-> {}, quotes_line |-> FALSE]

\* a datetime: its year and the rest of the instant; None
NoTime == [year |-> NoTs, t |-> NoTs]

\* no transformer made yet; the lambda put in place for an empty file
NoTransformer == [cls |-> "none", file_stat |-> NoTs]
NoopTransformer == [cls |-> "noop", file_stat |-> NoTs]

\* the year BDHMS.__call__ gives its timestamps
DateYear(x) == IF x.file_stat # NoTs THEN x.file_stat ELSE NowYear

\* the transformer applied to a line, selecting the class by the line instead
\* of using the class of the transformer
CallAnyMatcher(x, line) ==
    LET hits == {i \in 1..Len(BuiltinTransformers) : Matches(BuiltinTransformers[i], line)}
        cls == BuiltinTransformers[CHOOSE i \in hits : \A j \in hits : i <= j]
        stamp == MatchedStamp(cls, line)
    IN  IF x.cls = "noop" \/ hits = {} THEN [raised |-> FALSE, ts |-> NoTime]
        ELSE IF ~Converts(cls, stamp) THEN [raised |-> TRUE, ts |-> NoTime]
        ELSE [raised |-> FALSE,
              ts |-> [year |-> (IF cls = "BDHMS" THEN DateYear(x) ELSE stamp.year),
                      t |-> stamp.t]]

\* xformer(line): TimestampedLineTransformer.__call__ with the override of
\* BDHMS; the timestamp it returns, or raised when str_to_time raises
Call(x, line) ==
    LET stamp == MatchedStamp(x.cls, line)
    IN  IF x.cls = "noop" THEN [raised |-> FALSE, ts |-> NoTime]
        ELSE IF ~Matches(x.cls, line) THEN [raised |-> FALSE, ts |-> NoTime]
        ELSE IF ~Converts(x.cls, stamp) THEN [raised |-> TRUE, ts |-> NoTime]
        ELSE [raised |-> FALSE,
              ts |-> [year |-> (IF x.cls = "BDHMS" THEN DateYear(x) ELSE stamp.year),
                      t |-> stamp.t]]

\* the merge is followed without following the transformer of a file
TransformerIdle ==
    /\ raw_lines = <<>>
    /\ ctime_year = NowYear
    /\ xformer = NoTransformer
    /\ xformed = <<>>
    /\ xpc = "idle"

-----------------------------------------------------------------------------
(* The configuration and the registry of custom transformers *)

\* most custom timestamp formats on the command line
MaxTemplates == 2
\* most applications made in one process
MaxRuns == 2
\* len(string.ascii_uppercase): the names custom_transformer_suffixes can give
NumSuffixes == 26

\* a --timestamp_format template: whether it holds the "(...)" placeholder
Templates == [placeholder : BOOLEAN]

\* the argparse namespace: start and end as the times they parse to (NoTs: not given)
Config(cfg_start, cfg_end, cfg_autoclip, cfg_ignore, cfg_formats) ==
    [start |-> cfg_start, end |-> cfg_end, autoclip |-> cfg_autoclip,
     ignore_non_timestamped |-> cfg_ignore, timestamp_formats |-> cfg_formats]

\* no application has finished yet
NoRun == [done |-> FALSE, records |-> <<>>]

\* ValueError("invalid start/end times - start must be before end")
InvalidWindowError == [exc |-> "ValueError", msg |-> "invalid start/end times - start must be before end",
                       file_names |-> {}, quotes_line |-> FALSE]
\* ValueError(f"custom timestamp format '{custom_timestamp}' must contain '(...)' placeholder")
PlaceholderError == [exc |-> "ValueError", msg |-> "custom timestamp format must contain '(...)' placeholder",
                     file_names |-> {}, quotes_line |-> FALSE]
\* next(cls.custom_transformer_suffixes) on the exhausted iterator
SuffixesExhausted == [exc |-> "StopIteration", msg |-> "", file_names |-> {}, quotes_line |-> FALSE]

\* the loop of make_custom_transformers from the i-th class on: one custom
\* class per class that is not itself custom, each named with the next suffix
RECURSIVE MakeCustomLoop(_, _)
MakeCustomLoop(reg, i) ==
    IF i > Len(BuiltinTransformers) THEN [reg |-> reg, error |-> NoError]
    ELSE IF Len(reg) >= NumSuffixes THEN [reg |-> reg, error |-> SuffixesExhausted]
    ELSE MakeCustomLoop(Append(reg, [base |-> BuiltinTransformers[i], suffix |-> Len(reg) + 1]),
                        i + 1)

\* make_custom_transformers(custom_timestamp)
MakeCustomTransformers(reg, template) ==
    IF ~template.placeholder THEN [reg |-> reg, error |-> PlaceholderError]
    ELSE MakeCustomLoop(reg, 1)

\* __init__ registers the formats of the configuration in order, up to the
\* first that raises
RECURSIVE RegisterFormats(_, _)
RegisterFormats(reg, formats) ==
    IF formats = <<>> THEN [reg |-> reg, error |-> NoError]
    ELSE LET r == MakeCustomTransformers(reg, Head(formats))
         IN  IF r.error # NoError THEN r ELSE RegisterFormats(r.reg, Tail(formats))

\* the window test of __init__ that lets start equal end
InvalidWindowStrict(st, en) == en < st

\* self.end_time <= self.start_time
InvalidWindow(st, en) == en <= st

-----------------------------------------------------------------------------
(* InteractiveLogMergeViewerApp: moving the cursor *)

\* most rows of the table the viewer is followed on
MaxRows == 3
\* the timestamps of its rows and of the requests, as the strings of the
\* timestamp column order them: more than rows, so that a request can fall
\* between two rows, before the first and after the last
ViewStamps == 1..(MaxRows + 2)

\* the viewer is not followed
ViewerIdle ==
    /\ merged_log_lines_table = <<>>
    /\ cursor_row = 0
    /\ current_goto_timestamp_string = NoTs

\* move_cursor_to_line_number: the row the cursor is put on
ClampRow(tbl, line_number) ==
    IF line_number >= Len(tbl) THEN Len(tbl) - 1
    ELSE IF line_number < 0 THEN 0 ELSE line_number

\* the while loop of move_cursor_to_timestamp for a row before the target;
\* row n of the table is tbl[n + 1]
RECURSIVE ScanForward(_, _, _)
ScanForward(tbl, n, target) ==
    IF n < Len(tbl) - 1 /\ ~(tbl[n + 1] >= target)
    THEN ScanForward(tbl, n + 1, target)
    ELSE n

\* the while loop of move_cursor_to_timestamp for a row after the target
RECURSIVE ScanBackward(_, _, _)
ScanBackward(tbl, n, target) ==
    IF n > 0 /\ ~(tbl[n + 1] <= target)
    THEN ScanBackward(tbl, n - 1, target)
    ELSE n

-----------------------------------------------------------------------------
(* Initial states: the application after LogMergerApplication.__init__ *)

\* the time_clip __init__ selects from config.start / config.end (NoTs: not given)
InitTimeClip(cfg_start, cfg_end) ==
    IF cfg_end # NoTs THEN "early_exit"
    ELSE IF cfg_start # NoTs THEN "after_start" ELSE "none"

\* the attributes __init__ sets from the configuration, and the merge not begun
InitMerge(files, cfg_start, cfg_end, cfg_autoclip, cfg_ignore) ==
    /\ lines = files
    /\ start_time = (IF cfg_start = NoTs THEN DtMin ELSE cfg_start)
    /\ end_time = (IF cfg_end = NoTs THEN DtMax ELSE cfg_end)
    /\ time_clip = InitTimeClip(cfg_start, cfg_end)
    /\ autoclip = cfg_autoclip
    /\ append_non_timestamped_lines = ~cfg_ignore
    /\ status = [s \in Sources |-> "new"]
    /\ seq_pos = [s \in Sources |-> 0]
    /\ lookahead_buffer = [s \in Sources |-> <<>>]
    /\ last_line_key = [s \in Sources |-> NoTs]
    /\ seq_consumed = [s \in Sources |-> FALSE]
    /\ emitted = [s \in Sources |-> <<>>]
    /\ entries = [s \in Sources |-> <<>>]
    /\ heads = [s \in Sources |-> NoEntry]
    /\ group_open = FALSE
    /\ group_key = NoTs
    /\ line_dict = EmptyDict
    /\ records = <<>>
    /\ merged = <<>>
    /\ error = NoError

InitApp(files, cfg_start, cfg_end, cfg_autoclip, cfg_ignore) ==
    /\ InitMerge(files, cfg_start, cfg_end, cfg_autoclip, cfg_ignore)
    /\ pc = "start"
    /\ TransformerIdle
    /\ config = Config(cfg_start, cfg_end, cfg_autoclip, cfg_ignore, <<>>)
    /\ custom_transformers = <<>>
    /\ run = 1
    /\ first_run = NoRun
    /\ ViewerIdle

\* the files of a run without a time window: one long first file beside a
\* one-line second file, or two short files
LongRuns == {<<f, <<1>>>> : f \in SeqsUpTo(TsOrNone, MaxLen)}
PairRuns == SeqsUpTo(PairTsOrNone, PairLen) \X SeqsUpTo(PairTsOrNone, PairLen)

\* runs without a time window
Init ==
    \E files \in LongRuns \cup PairRuns :
        InitApp(files, NoTs, NoTs, FALSE, FALSE)

\* the time windows of the clipped runs: --start and --end each absent or
\* given, start before end, or --autoclip
ClipConfigs == {<<2, NoTs, FALSE>>, <<NoTs, 3, FALSE>>, <<2, 3, FALSE>>, <<NoTs, NoTs, TRUE>>}
ClipRuns == SeqsUpTo(ClipTsOrNone, ClipLen) \X SeqsUpTo(ClipTsOrNone, 1)

\* runs clipped to a time window
InitClip ==
    \E files \in ClipRuns, cfg \in ClipConfigs :
        InitApp(files, cfg[1], cfg[2], cfg[3], FALSE)

\* runs with --ignore_non_timestamped: a long first file without a time window,
\* or short files clipped to a time window
InitIgnore ==
    \/ \E files \in LongRuns : InitApp(files, NoTs, NoTs, FALSE, TRUE)
    \/ \E files \in ClipRuns, cfg \in ClipConfigs : InitApp(files, cfg[1], cfg[2], cfg[3], TRUE)

-----------------------------------------------------------------------------
(* Actions *)

\* make_transformer_from_sample_line on the first line of a file raises
\* ValueError when the line matches no timestamp pattern
NoFormatDetected(s) == lines[s] # <<>> /\ lines[s][1] = NoTs

\* a scan that finds datetime.min in a first file without timestamps
ClipPeekOrMin ==
    IF SelectSeq(lines[1], LAMBDA t : t # NoTs) = <<>> THEN <<DtMin>>
    ELSE SelectSeq(lines[1], LAMBDA t : t # NoTs)

\* the timestamps of the lines of the first file, as the autoclip scan sees them
ClipPeek == SelectSeq(lines[1], LAMBDA t : t # NoTs)

\* a scan that never lowers the start of the range
RECURSIVE AutoClipScanFirst(_, _, _)
AutoClipScanFirst(seq, lo, hi) ==
    IF seq = <<>> THEN <<lo, hi>>
    ELSE IF Head(seq) > hi THEN AutoClipScanFirst(Tail(seq), lo, Head(seq))
    ELSE AutoClipScanFirst(Tail(seq), lo, hi)

\* the loop over the rest of clip_peek: the range (lo, hi) widened by each timestamp
RECURSIVE AutoClipScan(_, _, _)
AutoClipScan(seq, lo, hi) ==
    IF seq = <<>> THEN <<lo, hi>>
    ELSE IF Head(seq) > hi THEN AutoClipScan(Tail(seq), lo, Head(seq))
    ELSE IF Head(seq) < lo THEN AutoClipScan(Tail(seq), Head(seq), hi)
    ELSE AutoClipScan(Tail(seq), lo, hi)

AutoClipRange == AutoClipScan(Tail(ClipPeek), Head(ClipPeek), Head(ClipPeek))

\* _merge_log_file_lines up to the construction of the Merger: the transformers
\* are made, and with autoclip the first file is scanned for its time range
Prepare ==
    /\ pc = "start"
    /\ IF \E s \in Sources : NoFormatDetected(s)
       THEN /\ pc' = "error"
            /\ error' = NoMatchError
            /\ UNCHANGED <<start_time, end_time, time_clip>>
       ELSE IF autoclip
            THEN IF ClipPeek = <<>>
                 THEN /\ pc' = "error"
                      /\ error' = NoTimestampsError
                      /\ UNCHANGED <<start_time, end_time, time_clip>>
                 ELSE /\ pc' = "merge"
                      /\ start_time' = AutoClipRange[1]
                      /\ end_time' = AutoClipRange[2]
                      /\ time_clip' = "early_exit"
                      /\ UNCHANGED error
            ELSE /\ pc' = "merge"
                 /\ UNCHANGED <<start_time, end_time, time_clip, error>>
    /\ UNCHANGED <<xvars, cvars, ivars, lines, autoclip, append_non_timestamped_lines, status, seq_pos,
                   lookahead_buffer, last_line_key, seq_consumed, emitted, entries,
                   heads, group_open, group_key, line_dict, records, merged>>

\* heapq.merge asks file s for its next entry: it holds none for it and the file
\* is not exhausted; files are asked in order
NeedsPull(s) == status[s] # "done" /\ heads[s] = NoEntry

NextToPull(s) == NeedsPull(s) /\ \A r \in Sources : r < s => ~NeedsPull(r)

\* WindowedSort.__init__, run when the collapser generator of file s is started
Construct(s) ==
    /\ pc = "merge"
    /\ NextToPull(s)
    /\ status[s] = "new"
    /\ LET g == Groups(s)
           n == IF Len(g) < window THEN Len(g) ELSE window
           buf == SortAndMerge(SubSeq(g, 1, n))
       IN  /\ seq_pos' = [seq_pos EXCEPT ![s] = n]
           /\ lookahead_buffer' = [lookahead_buffer EXCEPT ![s] = buf]
           /\ last_line_key' = [last_line_key EXCEPT ![s] =
                                   IF buf = <<>> THEN NoTs ELSE Last(buf).key]
           /\ seq_consumed' = [seq_consumed EXCEPT ![s] = InitSeqConsumed(buf)]
    /\ status' = [status EXCEPT ![s] = "active"]
    /\ UNCHANGED <<xvars, cvars, ivars, error, lines, start_time, end_time, time_clip, autoclip,
                   append_non_timestamped_lines, pc, emitted, entries, heads,
                   group_open, group_key, line_dict, records, merged>>

\* one WindowedSort.__next__ for file s and the collapser's loop body on its result
Pull(s) ==
    /\ pc = "merge"
    /\ NextToPull(s)
    /\ status[s] = "active"
    /\ LET g == Groups(s)
           reads == ~seq_consumed[s] /\ seq_pos[s] < Len(g)
           new_line == g[seq_pos[s] + 1]
           llk == IF last_line_key[s] = NoTs THEN new_line.key ELSE last_line_key[s]
           buf == IF ~reads THEN lookahead_buffer[s]
                  ELSE IF new_line.key <= llk
                       THEN InsertOrMerge(lookahead_buffer[s], new_line)
                       ELSE Append(lookahead_buffer[s], new_line)
       IN  /\ seq_pos' = [seq_pos EXCEPT ![s] = IF reads THEN @ + 1 ELSE @]
           /\ seq_consumed' = [seq_consumed EXCEPT ![s] = IF reads THEN @ ELSE TRUE]
           /\ last_line_key' = [last_line_key EXCEPT ![s] =
                                   IF ~reads THEN @
                                   ELSE IF new_line.key <= llk THEN llk ELSE new_line.key]
           /\ IF buf = <<>>
              THEN \* StopIteration: the generator of file s ends
                   /\ lookahead_buffer' = [lookahead_buffer EXCEPT ![s] = <<>>]
                   /\ status' = [status EXCEPT ![s] = "done"]
                   /\ UNCHANGED <<emitted, entries, heads>>
              ELSE LET timestamp == Head(buf).key
                       verdict == TimeFilter(timestamp)
                       entry == [ts |-> timestamp, body |-> LogBody(Head(buf).lines)]
                   IN  /\ lookahead_buffer' = [lookahead_buffer EXCEPT ![s] = Tail(buf)]
                       /\ emitted' = [emitted EXCEPT ![s] = Append(@, Head(buf))]
                       /\ status' = [status EXCEPT ![s] =
                                        IF verdict = "break" THEN "done" ELSE @]
                       /\ IF verdict = "yield"
                          THEN /\ entries' = [entries EXCEPT ![s] = Append(@, entry)]
                               /\ heads' = [heads EXCEPT ![s] = entry]
                          ELSE UNCHANGED <<entries, heads>>
    /\ UNCHANGED <<xvars, cvars, ivars, error, lines, start_time, end_time, time_clip, autoclip,
                   append_non_timestamped_lines, pc, group_open, group_key,
                   line_dict, records, merged>>

\* a merge that compares the labelled entries themselves: file order first
MinHeadByLabel(s) ==
    /\ heads[s] # NoEntry
    /\ \A r \in Sources : heads[r] # NoEntry => s <= r

\* a merge that among equal keys yields the entry of the last file first
MinHeadLastFile(s) ==
    /\ heads[s] # NoEntry
    /\ \A r \in Sources : heads[r] # NoEntry =>
          \/ heads[s].ts < heads[r].ts
          \/ (heads[s].ts = heads[r].ts /\ s >= r)

\* heapq.merge yields the entry with the least (key, file order)
MinHead(s) ==
    /\ heads[s] # NoEntry
    /\ \A r \in Sources : heads[r] # NoEntry =>
          \/ heads[s].ts < heads[r].ts
          \/ (heads[s].ts = heads[r].ts /\ s <= r)

\* a grouping that never joins entries
SameGroupNever(s) == FALSE

\* groupby(heapq.merge(...), key): the entry of file s continues the open group
SameGroup(s) == group_open /\ heads[s].ts = group_key

\* the record loop takes the next labelled entry from heapq.merge through groupby:
\* an entry with the key of the open group goes into the record under construction,
\* any other entry closes that record (it is yielded) and starts the next one
MergeNext ==
    /\ pc = "merge"
    /\ \A s \in Sources : ~NeedsPull(s)
    /\ \E s \in Sources :
          /\ MinHead(s)
          /\ IF SameGroup(s)
             THEN /\ line_dict' = [line_dict EXCEPT !.cols[s] = heads[s].body]
                  /\ UNCHANGED <<records, group_key, group_open>>
             ELSE /\ records' = IF group_open THEN Append(records, line_dict) ELSE records
                  /\ line_dict' = [NewLineDict(Len(records') + 1, heads[s].ts)
                                      EXCEPT !.cols[s] = heads[s].body]
                  /\ group_key' = heads[s].ts
                  /\ group_open' = TRUE
          /\ heads' = [heads EXCEPT ![s] = NoEntry]
          /\ merged' = Append(merged, [src |-> s, ts |-> heads[s].ts, body |-> heads[s].body])
    /\ UNCHANGED <<xvars, cvars, ivars, error, lines, start_time, end_time, time_clip, autoclip,
                   append_non_timestamped_lines, pc, status, seq_pos, lookahead_buffer,
                   last_line_key, seq_consumed, emitted, entries>>

\* every file is exhausted: the last record is yielded and the merge ends
Finish ==
    /\ pc = "merge"
    /\ \A s \in Sources : status[s] = "done" /\ heads[s] = NoEntry
    /\ records' = IF group_open THEN Append(records, line_dict) ELSE records
    /\ group_open' = FALSE
    /\ pc' = "done"
    /\ UNCHANGED <<xvars, cvars, ivars, error, lines, start_time, end_time, time_clip, autoclip,
                   append_non_timestamped_lines, status, seq_pos, lookahead_buffer,
                   last_line_key, seq_consumed, emitted, entries, heads, group_key,
                   line_dict, merged>>

Next ==
    \/ Prepare
    \/ \E s \in Sources : Construct(s)
    \/ \E s \in Sources : Pull(s)
    \/ MergeNext
    \/ Finish

Spec == Init /\ [][Next]_vars

SpecClip == InitClip /\ [][Next]_vars

\* runs with and without a time window
SpecAll == (Init \/ InitClip) /\ [][Next]_vars

\* runs that ignore the lines without a timestamp
SpecIgnore == InitIgnore /\ [][Next]_vars

-----------------------------------------------------------------------------
(* The transformer of one file, followed line by line *)

\* a file of lines of any layout, created this year or the year before; the
\* merge itself is not followed
InitTransform ==
    /\ InitMerge(<<<<>>, <<>>>>, NoTs, NoTs, FALSE, FALSE)
    /\ pc = "start"
    /\ config = Config(NoTs, NoTs, FALSE, FALSE, <<>>)
    /\ custom_transformers = <<>>
    /\ run = 1
    /\ first_run = NoRun
    /\ ViewerIdle
    /\ raw_lines \in SeqsUpTo(RawLines, MaxRawLen)
    /\ ctime_year \in {NowYear - 1, NowYear}
    /\ xformer = NoTransformer
    /\ xformed = <<>>
    /\ xpc = "sample"

\* the first class in the order of __subclasses__() that matches the line, 0 if none
FirstMatch(line) ==
    LET hits == {i \in 1..Len(BuiltinTransformers) : Matches(BuiltinTransformers[i], line)}
    IN  IF hits = {} THEN 0 ELSE CHOOSE i \in hits : \A j \in hits : i <= j

\* _merge_log_file_lines makes the transformer of the file from its first line
MakeTransformer ==
    /\ xpc = "sample"
    /\ IF raw_lines = <<>>
       THEN /\ xformer' = NoopTransformer
            /\ xpc' = "lines"
            /\ UNCHANGED error
       ELSE IF FirstMatch(raw_lines[1]) = 0
            THEN /\ error' = NoMatchError
                 /\ xpc' = "raised"
                 /\ UNCHANGED xformer
            ELSE /\ xformer' = [cls |-> BuiltinTransformers[FirstMatch(raw_lines[1])],
                                file_stat |-> NoTs]
                 /\ xpc' = "lines"
                 /\ UNCHANGED error
    /\ UNCHANGED <<raw_lines, ctime_year, xformed>>
    /\ UNCHANGED <<cvars, ivars, lines, start_time, end_time, time_clip, autoclip,
                   append_non_timestamped_lines, pc, status, seq_pos, lookahead_buffer,
                   last_line_key, seq_consumed, emitted, entries, heads, group_open,
                   group_key, line_dict, records, merged>>

\* map(xformer, ...) yields the next line of the file, or the exception of
\* the transformer ends the merge
TransformLine ==
    /\ xpc = "lines"
    /\ Len(xformed) < Len(raw_lines)
    /\ LET r == Call(xformer, raw_lines[Len(xformed) + 1])
       IN  IF r.raised
           THEN /\ error' = StrToTimeError
                /\ xpc' = "raised"
                /\ UNCHANGED xformed
           ELSE /\ xformed' = Append(xformed, r.ts)
                /\ UNCHANGED <<error, xpc>>
    /\ UNCHANGED <<raw_lines, ctime_year, xformer>>
    /\ UNCHANGED <<cvars, ivars, lines, start_time, end_time, time_clip, autoclip,
                   append_non_timestamped_lines, pc, status, seq_pos, lookahead_buffer,
                   last_line_key, seq_consumed, emitted, entries, heads, group_open,
                   group_key, line_dict, records, merged>>

NextTransform == MakeTransformer \/ TransformLine

SpecTransform == InitTransform /\ [][NextTransform]_vars

-----------------------------------------------------------------------------
(* The application made from a configuration, once and again in one process *)

\* the runs that start before LogMergerApplication.__init__: a short first file
\* beside a one-line second file, any window, up to MaxTemplates formats
ConfigTimes == (1..PairLen) \cup {NoTs}
InitConfig ==
    /\ \E f \in SeqsUpTo(PairTsOrNone, PairLen) :
           InitMerge(<<f, <<1>>>>, NoTs, NoTs, FALSE, FALSE)
    /\ pc = "config"
    /\ TransformerIdle
    /\ \E st \in ConfigTimes, en \in ConfigTimes, fm \in SeqsUpTo(Templates, MaxTemplates) :
           config = Config(st, en, FALSE, FALSE, fm)
    /\ custom_transformers = <<>>
    /\ run = 1
    /\ first_run = NoRun
    /\ ViewerIdle

\* LogMergerApplication.__init__(config)
Configure ==
    /\ pc = "config"
    /\ LET r == RegisterFormats(custom_transformers, config.timestamp_formats)
           st == IF config.start = NoTs THEN DtMin ELSE config.start
           en == IF config.end = NoTs THEN DtMax ELSE config.end
       IN  /\ custom_transformers' = r.reg
           /\ IF r.error # NoError
              THEN /\ error' = r.error
                   /\ pc' = "error"
                   /\ UNCHANGED <<start_time, end_time, time_clip, autoclip,
                                  append_non_timestamped_lines>>
              ELSE IF InvalidWindow(st, en)
              THEN /\ error' = InvalidWindowError
                   /\ pc' = "error"
                   /\ autoclip' = config.autoclip
                   /\ append_non_timestamped_lines' = ~config.ignore_non_timestamped
                   /\ start_time' = st
                   /\ end_time' = en
                   /\ UNCHANGED time_clip
              ELSE /\ autoclip' = config.autoclip
                   /\ append_non_timestamped_lines' = ~config.ignore_non_timestamped
                   /\ start_time' = st
                   /\ end_time' = en
                   /\ time_clip' = InitTimeClip(config.start, config.end)
                   /\ pc' = "start"
                   /\ UNCHANGED error
    /\ UNCHANGED <<xvars, ivars, config, run, first_run, lines, status, seq_pos, lookahead_buffer,
                   last_line_key, seq_consumed, emitted, entries, heads, group_open,
                   group_key, line_dict, records, merged>>

\* the process is done with one application and makes the next from the same
\* configuration over the same files
Rerun ==
    /\ pc = "done"
    /\ run < MaxRuns
    /\ run' = run + 1
    /\ first_run' = (IF run = 1 THEN [done |-> TRUE, records |-> records] ELSE first_run)
    /\ pc' = "config"
    /\ start_time' = DtMin
    /\ end_time' = DtMax
    /\ time_clip' = "none"
    /\ autoclip' = FALSE
    /\ append_non_timestamped_lines' = TRUE
    /\ status' = [s \in Sources |-> "new"]
    /\ seq_pos' = [s \in Sources |-> 0]
    /\ lookahead_buffer' = [s \in Sources |-> <<>>]
    /\ last_line_key' = [s \in Sources |-> NoTs]
    /\ seq_consumed' = [s \in Sources |-> FALSE]
    /\ emitted' = [s \in Sources |-> <<>>]
    /\ entries' = [s \in Sources |-> <<>>]
    /\ heads' = [s \in Sources |-> NoEntry]
    /\ group_open' = FALSE
    /\ group_key' = NoTs
    /\ line_dict' = EmptyDict
    /\ records' = <<>>
    /\ merged' = <<>>
    /\ UNCHANGED <<xvars, ivars, error, lines, config, custom_transformers>>

NextConfig == Configure \/ Rerun \/ Next

SpecConfig == InitConfig /\ [][NextConfig]_vars

\* runs in every mode: short files, without a window or clipped to each
\* window, with and without --ignore_non_timestamped
InitModes ==
    \E files \in ClipRuns, cfg \in ClipConfigs \cup {<<NoTs, NoTs, FALSE>>}, ign \in BOOLEAN :
        InitApp(files, cfg[1], cfg[2], cfg[3], ign)

SpecModes == InitModes /\ [][Next]_vars

-----------------------------------------------------------------------------
(* The interactive viewer on a merged table *)

\* the tables of a merge that came out in order: rows of increasing timestamp
ViewTables ==
    {t \in SeqsUpTo(ViewStamps, MaxRows) :
        t # <<>> /\ \A i \in 1..(Len(t) - 1) : t[i] < t[i + 1]}

InitViewer ==
    /\ InitMerge(<<<<>>, <<>>>>, NoTs, NoTs, FALSE, FALSE)
    /\ pc = "done"
    /\ TransformerIdle
    /\ config = Config(NoTs, NoTs, FALSE, FALSE, <<>>)
    /\ custom_transformers = <<>>
    /\ run = 1
    /\ first_run = NoRun
    /\ merged_log_lines_table \in ViewTables
    /\ cursor_row = 0
    /\ current_goto_timestamp_string = NoTs

\* move_cursor_to_line_number_1_based(line_number_str) for the digits of n
MoveCursorToLineNumber1Based(n) ==
    /\ cursor_row' = ClampRow(merged_log_lines_table, (IF n = 0 THEN 1 ELSE n) - 1)
    /\ UNCHANGED <<merged_log_lines_table, current_goto_timestamp_string>>
    /\ UNCHANGED <<xvars, cvars, error, lines, start_time, end_time, time_clip, autoclip,
                   append_non_timestamped_lines, pc, status, seq_pos, lookahead_buffer,
                   last_line_key, seq_consumed, emitted, entries, heads, group_open,
                   group_key, line_dict, records, merged>>

\* move_cursor_to_timestamp(timestamp_str) for a timestamp the validator accepts
MoveCursorToTimestamp(target) ==
    /\ current_goto_timestamp_string' = target
    /\ LET current_row_time == merged_log_lines_table[cursor_row + 1]
       IN  cursor_row' =
               IF current_row_time = target THEN cursor_row
               ELSE IF current_row_time < target
               THEN ClampRow(merged_log_lines_table,
                             ScanForward(merged_log_lines_table, cursor_row, target))
               ELSE ClampRow(merged_log_lines_table,
                             ScanBackward(merged_log_lines_table, cursor_row, target))
    /\ UNCHANGED merged_log_lines_table
    /\ UNCHANGED <<xvars, cvars, error, lines, start_time, end_time, time_clip, autoclip,
                   append_non_timestamped_lines, pc, status, seq_pos, lookahead_buffer,
                   last_line_key, seq_consumed, emitted, entries, heads, group_open,
                   group_key, line_dict, records, merged>>

NextViewer ==
    \/ \E n \in 0..(MaxRows + 1) : MoveCursorToLineNumber1Based(n)
    \/ \E target \in ViewStamps : MoveCursorToTimestamp(target)

SpecViewer == InitViewer /\ [][NextViewer]_vars

-----------------------------------------------------------------------------
(* Measures of a run used by the properties *)

\* the keys of the groups handed to the reorderer of file s
GroupKeys(s) == [i \in 1..Len(Groups(s)) |-> Groups(s)[i].key]

NonDecreasing(k) == \A i \in 1..(Len(k) - 1) : k[i] <= k[i + 1]

\* how late group i of file s arrives: the number of earlier groups with a greater key
LateBy(s, i) ==
    LET g == Groups(s)
    IN  Cardinality({j \in 1..(i - 1) : g[j].key > g[i].key})

\* no two groups of file s share a timestamp and none arrives more than window groups late
WithinWindow(s) ==
    LET g == Groups(s)
    IN  /\ \A i, j \in 1..Len(g) : i # j => g[i].key # g[j].key
        /\ \A i \in 1..Len(g) : Cardinality({j \in 1..(i - 1) : g[j].key > g[i].key}) <= window

\* the keys of the groups the reorderer of file s has returned
EmittedKeys(s) == [i \in 1..Len(emitted[s]) |-> emitted[s][i].key]

\* the number of places of the output columns of file s that hold line i
OutputCount(s, i) ==
    Cardinality({rp \in (1..Len(records)) \X (1..Len(lines[s])) :
                    /\ rp[2] <= Len(records[rp[1]].cols[s])
                    /\ records[rp[1]].cols[s][rp[2]] = i})

InOutput(s, i) == \E r \in 1..Len(records) : \E p \in 1..Len(records[r].cols[s]) :
                     records[r].cols[s][p] = i

\* the records yielded so far and the one under construction
AllRecords == IF group_open THEN Append(records, line_dict) ELSE records

\* file s has yielded an entry at timestamp T
EntryAt(s, T) == \E k \in 1..Len(entries[s]) : entries[s][k].ts = T

\* the records built for the merged group of key T
RecordsAt(T) == {r \in 1..Len(records) : records[r].key = T}

-----------------------------------------------------------------------------
(* C1 *)

-----------------------------------------------------------------------------
(* C2 *)

\* C2: without a time window and with untimestamped lines included, after the merge
\* every line of every file is in exactly one place of its file's output column.
C2_Conservation ==
    (pc = "done" /\ time_clip = "none" /\ ~autoclip /\ append_non_timestamped_lines) =>
        \A s \in Sources : \A i \in 1..Len(lines[s]) : OutputCount(s, i) = 1

-----------------------------------------------------------------------------
(* C3 *)

\* the sequence k with its element i moved d places earlier
Moved(k, i, d) ==
    [j \in 1..Len(k) |-> IF j < i - d THEN k[j]
                         ELSE IF j = i - d THEN k[i]
                         ELSE IF j <= i THEN k[j - 1]
                         ELSE k[j]]

\* k is out of order, and moving one element at most window places earlier sorts it
OneInversion(k) ==
    /\ ~NonDecreasing(k)
    /\ \E i \in 1..Len(k) : \E d \in 1..window :
          i - d >= 1 /\ NonDecreasing(Moved(k, i, d))

\* every line of file s is in a group its reorderer has returned
AllLinesEmitted(s) ==
    \A i \in 1..Len(lines[s]) :
        \E g \in 1..Len(emitted[s]) : \E p \in 1..Len(emitted[s][g].lines) :
            emitted[s][g].lines[p].text = i

\* C3: a file with one inversion of distance at most window has all its groups
\* emitted by the reorderer, in sorted timestamp order.
C3_WindowedCorrection ==
    (pc = "done" /\ OneInversion(GroupKeys(1))) =>
        (NonDecreasing(EmittedKeys(1)) /\ AllLinesEmitted(1))

-----------------------------------------------------------------------------
(* C4 *)

\* C4: a pull that reads a group arriving more than window groups late returns that
\* very group, without ending the stream, after a group with a greater timestamp.
C4_LatePassThrough ==
    [][\A s \in Sources :
          (/\ status[s] = "active"
           /\ seq_pos'[s] = seq_pos[s] + 1
           /\ LateBy(s, seq_pos'[s]) > window)
          => (/\ status'[s] = "active"
              /\ pc' = "merge"
              /\ Len(emitted'[s]) = Len(emitted[s]) + 1
              /\ Last(emitted'[s]) = Groups(s)[seq_pos'[s]]
              /\ \E j \in 1..Len(emitted[s]) :
                    emitted[s][j].key > Last(emitted'[s]).key)]_vars

\* the last group read by the reorderer of a file arrived more than window groups late
\* and is the last one it returned, after a group with a greater timestamp
C4_Witness ==
    \E s \in Sources :
        /\ seq_pos[s] > window
        /\ LateBy(s, seq_pos[s]) > window
        /\ emitted[s] # <<>>
        /\ Last(emitted[s]) = Groups(s)[seq_pos[s]]
        /\ \E j \in 1..(Len(emitted[s]) - 1) : emitted[s][j].key > Last(emitted[s]).key

-----------------------------------------------------------------------------
(* C5 *)

-----------------------------------------------------------------------------
(* C6 *)

\* the place in the line sequence F of the line with text i
PlaceOf(F, i) == CHOOSE p \in 1..Len(F) : F[p].text = i

\* the last timestamped line before place p of the line sequence F, 0 if there is none
PrevStamped(F, p) ==
    LET qs == {q \in 1..(p - 1) : F[q].ts # NoTs}
    IN  IF qs = {} THEN 0 ELSE CHOOSE q \in qs : \A r \in qs : r <= q

\* C6: of the lines handed to the collapser of a file, every line without a timestamp
\* is in the group of the last timestamped line before it, under that line's timestamp
\* and right after the lines between them; and the body of every entry the file yields
\* consists of timestamped lines with the entry's timestamp, each followed by its
\* continuation lines in their order.
C6_MultilineCollapsing ==
    append_non_timestamped_lines =>
    \A s \in Sources :
        LET F == Filtered(s)
            G == Groups(s)
        IN  /\ \A p \in 1..Len(F) :
                  (F[p].ts = NoTs /\ PrevStamped(F, p) # 0) =>
                      LET q == PrevStamped(F, p)
                      IN  \E g \in 1..Len(G) :
                             /\ G[g].key = F[q].ts
                             /\ \E a \in 1..Len(G[g].lines) :
                                   /\ a + (p - q) <= Len(G[g].lines)
                                   /\ SubSeq(G[g].lines, a, a + (p - q)) = SubSeq(F, q, p)
            /\ \A k \in 1..Len(entries[s]) :
                  LET body == entries[s][k].body
                  IN  \A x \in 1..Len(body) :
                         LET p == PlaceOf(F, body[x])
                         IN  /\ F[p].ts # NoTs => F[p].ts = entries[s][k].ts
                             /\ (F[p].ts = NoTs /\ PrevStamped(F, p) # 0) =>
                                    (x > 1 /\ body[x - 1] = F[p - 1].text)
                             /\ (p < Len(F) /\ F[p + 1].ts = NoTs) =>
                                    (x < Len(body) /\ body[x + 1] = F[p + 1].text)

\* a file has yielded an entry of a timestamped line and two continuation lines
C6_Witness ==
    \E s \in Sources : \E k \in 1..Len(entries[s]) :
        LET body == entries[s][k].body
        IN  /\ Len(body) >= 3
            /\ lines[s][body[1]] = entries[s][k].ts
            /\ lines[s][body[2]] = NoTs
            /\ lines[s][body[3]] = NoTs

-----------------------------------------------------------------------------
(* C7 *)

\* the texts of the lines of a group are in the order the lines arrived
ArrivalOrder(g) == \A a, b \in 1..Len(g.lines) : a < b => g.lines[a].text < g.lines[b].text

\* C7: a pull that reads a group with the timestamp of a buffered group appends its
\* lines to that group and adds no group; construction leaves one group per timestamp
\* of the groups it read, holding all their lines; and the lines of every group
\* buffered or returned are in arrival order.
C7_SameTimestampMerge ==
    [][\A s \in Sources :
          /\ (status[s] = "active" /\ seq_pos'[s] = seq_pos[s] + 1) =>
                LET new_line == Groups(s)[seq_pos'[s]]
                    buf == lookahead_buffer[s]
                IN  \A b \in 1..Len(buf) :
                       buf[b].key = new_line.key =>
                          /\ Len(emitted'[s]) = Len(emitted[s]) + 1
                          /\ <<Last(emitted'[s])>> \o lookahead_buffer'[s]
                                = [buf EXCEPT ![b].lines = @ \o new_line.lines]
          /\ (status[s] = "new" /\ status'[s] = "active") =>
                \A i \in 1..seq_pos'[s] :
                   /\ Cardinality({b \in 1..Len(lookahead_buffer'[s]) :
                                      lookahead_buffer'[s][b].key = Groups(s)[i].key}) = 1
                   /\ \A b \in 1..Len(lookahead_buffer'[s]) :
                         lookahead_buffer'[s][b].key = Groups(s)[i].key =>
                            \A x \in 1..Len(Groups(s)[i].lines) :
                               \E y \in 1..Len(lookahead_buffer'[s][b].lines) :
                                  lookahead_buffer'[s][b].lines[y] = Groups(s)[i].lines[x]
          /\ \A b \in 1..Len(lookahead_buffer'[s]) : ArrivalOrder(lookahead_buffer'[s][b])
          /\ \A e \in 1..Len(emitted'[s]) : ArrivalOrder(emitted'[s][e])]_vars

\* the group last read by a pull was merged into a group read before it, and the
\* merged group (buffered or just returned) holds a continuation line
C7_Witness ==
    \E s \in Sources :
        /\ seq_pos[s] > window
        /\ emitted[s] # <<>>
        /\ LET new_line == Groups(s)[seq_pos[s]]
               held == <<Last(emitted[s])>> \o lookahead_buffer[s]
           IN  \E b \in 1..Len(held) :
                  /\ held[b].key = new_line.key
                  /\ Len(held[b].lines) > Len(new_line.lines)
                  /\ Last(held[b].lines) = Last(new_line.lines)
                  /\ \E y \in 1..Len(held[b].lines) : held[b].lines[y].ts = NoTs

-----------------------------------------------------------------------------
(* C8 *)

InWindow(t) == start_time <= t /\ t <= end_time

\* C8: in a clipped run every record with a timestamp lies in [start_time, end_time];
\* a line whose timestamp is start_time or end_time passes the line filter, and a
\* group returned by the reorderer with such a timestamp is yielded as an entry.
C8_InclusiveWindow ==
    (pc \in {"merge", "done"} /\ (time_clip # "none" \/ autoclip)) =>
        /\ \A r \in 1..Len(AllRecords) :
              AllRecords[r].timestamp # -1 => InWindow(AllRecords[r].key)
        /\ \A s \in Sources : \A i \in 1..Len(lines[s]) :
              lines[s][i] \in {start_time, end_time} =>
                 \E p \in 1..Len(Filtered(s)) : Filtered(s)[p].text = i
        /\ \A s \in Sources : \A g \in 1..Len(emitted[s]) :
              emitted[s][g].key \in {start_time, end_time} =>
                 \E k \in 1..Len(entries[s]) :
                    /\ entries[s][k].ts = emitted[s][g].key
                    /\ entries[s][k].body = LogBody(emitted[s][g].lines)

\* a finished clipped run with a record at start_time, a record at end_time and a
\* timestamped line outside the window
C8_Witness ==
    /\ pc = "done"
    /\ time_clip # "none"
    /\ start_time < end_time
    /\ \E r \in 1..Len(records) : records[r].key = start_time
    /\ \E r \in 1..Len(records) : records[r].key = end_time
    /\ \E s \in Sources : \E i \in 1..Len(lines[s]) :
          lines[s][i] # NoTs /\ ~InWindow(lines[s][i])

-----------------------------------------------------------------------------
(* C9 *)

\* the last timestamped line of the file before its line i, 0 if there is none
StampedBefore(s, i) ==
    LET js == {j \in 1..(i - 1) : lines[s][j] # NoTs}
    IN  IF js = {} THEN 0 ELSE CHOOSE j \in js : \A r \in js : r <= j

\* C9: after a clipped merge a line without a timestamp is in the output exactly when
\* the timestamped line it follows in its file is inside the window, and then it is in
\* the record that holds that line.
C9_ContinuationFollowsItsLine ==
    (pc = "done" /\ append_non_timestamped_lines) =>
        \A s \in Sources : \A i \in 1..Len(lines[s]) :
            (lines[s][i] = NoTs /\ StampedBefore(s, i) # 0) =>
                LET j == StampedBefore(s, i)
                IN  /\ InOutput(s, i) <=> InWindow(lines[s][j])
                    /\ InOutput(s, i) =>
                          \E r \in 1..Len(records) :
                             /\ \E p \in 1..Len(records[r].cols[s]) : records[r].cols[s][p] = i
                             /\ \E p \in 1..Len(records[r].cols[s]) : records[r].cols[s][p] = j

-----------------------------------------------------------------------------
(* C10 *)

\* the timestamps of the lines of the first file
RefTimestamps == {lines[1][i] : i \in 1..Len(lines[1])} \ {NoTs}

-----------------------------------------------------------------------------
(* C11 *)

\* the texts of the timestamped lines among ls, in order
RECURSIVE StampedTexts(_)
StampedTexts(ls) ==
    IF ls = <<>> THEN <<>>
    ELSE (IF Head(ls).ts # NoTs THEN <<Head(ls).text>> ELSE <<>>) \o StampedTexts(Tail(ls))

\* C11: with ignore-non-timestamped on, every group the reorderer returns inside the
\* time filter is yielded as an entry whose body is exactly the timestamped lines of
\* the group, in order; every entry is the entry of such a group; and no line without
\* a timestamp is in any record.
C11_IgnoreAfterGrouping ==
    ~append_non_timestamped_lines =>
        /\ \A s \in Sources : \A g \in 1..Len(emitted[s]) :
              TimeFilter(emitted[s][g].key) = "yield" =>
                 \E k \in 1..Len(entries[s]) :
                    /\ entries[s][k].ts = emitted[s][g].key
                    /\ entries[s][k].body = StampedTexts(emitted[s][g].lines)
        /\ \A s \in Sources : \A k \in 1..Len(entries[s]) :
              \E g \in 1..Len(emitted[s]) :
                 /\ entries[s][k].ts = emitted[s][g].key
                 /\ entries[s][k].body = StampedTexts(emitted[s][g].lines)
        /\ \A r \in 1..Len(AllRecords) : \A s \in Sources :
              \A p \in 1..Len(AllRecords[r].cols[s]) :
                 lines[s][AllRecords[r].cols[s][p]] # NoTs

\* a finished run with the option on in which a group of two timestamped lines and a
\* continuation line was yielded with a body of the two timestamped lines
C11_Witness ==
    /\ ~append_non_timestamped_lines
    /\ pc = "done"
    /\ \E s \in Sources : \E g \in 1..Len(emitted[s]) : \E k \in 1..Len(entries[s]) :
          /\ entries[s][k].ts = emitted[s][g].key
          /\ Len(emitted[s][g].lines) >= 3
          /\ Len(entries[s][k].body) = 2
          /\ \E r \in 1..Len(records) : records[r].cols[s] = entries[s][k].body

-----------------------------------------------------------------------------
(* C12 *)

\* C12: a file whose first line has no timestamp does not abort the run, and after the
\* merge its leading lines without a timestamp are in the column of the file in the
\* first record, whose timestamp field is empty.
C12_LeadingLinesKept ==
    \A s \in Sources :
        (lines[s] # <<>> /\ lines[s][1] = NoTs) =>
            /\ pc # "error"
            /\ pc = "done" =>
                  /\ records # <<>>
                  /\ records[1].timestamp = -1
                  /\ \A i \in 1..Len(lines[s]) :
                        (\A j \in 1..i : lines[s][j] = NoTs) =>
                           \E p \in 1..Len(records[1].cols[s]) : records[1].cols[s][p] = i

-----------------------------------------------------------------------------
(* C13 *)

\* the first file, in the order of the command line, whose sample line matches nothing
FirstUnmatched == CHOOSE s \in Sources :
                     NoFormatDetected(s) /\ \A r \in Sources : NoFormatDetected(r) => s <= r

\* C13: when the first line of a file matches no matcher, the merge fails with an error
\* raised to the caller whose message names that file, and no record is produced.
C13_NoMatchNamesSource ==
    ((\E s \in Sources : NoFormatDetected(s)) /\ pc # "start") =>
        /\ pc = "error"
        /\ error.exc # "none"
        /\ FirstUnmatched \in error.file_names
        /\ records = <<>>
        /\ \A s \in Sources : status[s] = "new"

-----------------------------------------------------------------------------
(* C14 *)

\* the transformer of the file is a transformer class
Bound == xformer.cls \notin {"none", "noop"}

\* line i of the file has the shape the transformer matches, with a value that
\* spells no existing date and time
Malformed(i) ==
    /\ Bound
    /\ Matches(xformer.cls, raw_lines[i])
    /\ ~MatchedStamp(xformer.cls, raw_lines[i]).valid

\* C14: a line that matches the shape of the bound transformer but whose value
\* does not parse never raises, and comes out with no timestamp, as a
\* continuation line does.
C14_MalformedValueIsContinuation ==
    \A i \in 1..Len(raw_lines) :
        Malformed(i) =>
            /\ ~(xpc = "raised" /\ Len(xformed) = i - 1)
            /\ (Len(xformed) >= i => xformed[i] = NoTime)

-----------------------------------------------------------------------------
(* C17 *)

\* C17: the transformer of a file is the first class, in the order of the
\* classes, that matches the first line of the file; every line of the file
\* is transformed by it, so a line comes out with no timestamp exactly when
\* that class does not match it, whatever other class would.
C17_SelectedOncePerSource ==
    Bound =>
        /\ raw_lines # <<>>
        /\ \E i \in 1..Len(BuiltinTransformers) :
               /\ xformer.cls = BuiltinTransformers[i]
               /\ Matches(BuiltinTransformers[i], raw_lines[1])
               /\ \A j \in 1..(i - 1) : ~Matches(BuiltinTransformers[j], raw_lines[1])
        /\ \A k \in 1..Len(xformed) :
               (xformed[k] = NoTime) <=> ~Matches(xformer.cls, raw_lines[k])

\* the first line matches two classes and the first of them is bound; the
\* second line matches the other class only, and has come out with no timestamp
C17_Witness ==
    /\ Len(xformed) = 2
    /\ xformer.cls = "YMDHMS"
    /\ Matches("PythonHttpServerLog", raw_lines[1])
    /\ Matches("PythonHttpServerLog", raw_lines[2])
    /\ ~Matches("YMDHMS", raw_lines[2])
    /\ xformed[2] = NoTime
    /\ xformed[1] # NoTime

-----------------------------------------------------------------------------
(* C19 *)

\* C19: the timestamps of a syslog file ("Mon DD HH:MM:SS") carry the year of
\* the creation time of the file.
C19_SyslogYearFromFile ==
    \A i \in 1..Len(xformed) :
        (xformer.cls = "BDHMS" /\ xformed[i] # NoTime) => xformed[i].year = ctime_year

-----------------------------------------------------------------------------
(* C20 *)

\* the timestamp a line is written with
SampleStamp(line) == IF line.lead # NoStamp THEN line.lead ELSE line.inner

\* C20: a first line written with a valid timestamp of a built-in layout binds
\* the class of that layout, and that class transforms the line, without
\* raising, to the instant the line spells.
C20_BuiltinShapesParse ==
    (/\ raw_lines # <<>>
     /\ SampleStamp(raw_lines[1]) # NoStamp
     /\ SampleStamp(raw_lines[1]).valid
     /\ xpc # "sample") =>
        LET stamp == SampleStamp(raw_lines[1])
        IN  /\ Bound
            /\ PatternLayout(xformer.cls) = stamp.layout
            /\ ~(xpc = "raised" /\ xformed = <<>>)
            /\ (xformed # <<>> =>
                   /\ xformed[1].t = stamp.t
                   /\ (stamp.year # NoTs => xformed[1].year = stamp.year))

-----------------------------------------------------------------------------
(* C15 *)

\* the configuration gives both ends of the window, with the start not before the end
WindowRejected == config.start # NoTs /\ config.end # NoTs /\ config.start >= config.end

\* C15: a configuration whose start is not before its end is rejected when
\* the application is made from it: an error is raised, with the message of
\* the window unless a timestamp format was rejected first, no file's
\* generator is begun and no record is produced.
C15_InvalidWindowRejected ==
    (WindowRejected /\ pc # "config") =>
        /\ pc = "error"
        /\ error # NoError
        /\ (RegisterFormats(<<>>, config.timestamp_formats).error = NoError
               => error = InvalidWindowError)
        /\ records = <<>>
        /\ \A s \in Sources : status[s] = "new" /\ entries[s] = <<>> /\ seq_pos[s] = 0

\* a window whose start equals its end has been rejected over a file that has lines
C15_Witness ==
    /\ pc = "error"
    /\ config.start # NoTs
    /\ config.start = config.end
    /\ error = InvalidWindowError
    /\ Len(lines[1]) = PairLen
    /\ records = <<>>

-----------------------------------------------------------------------------
(* C18 *)

\* C18: the second application made from the same configuration over the same
\* files raises no error, and when it is done its records are those of the first.
C18_RemergeIdempotent ==
    (run = 2 /\ first_run.done) =>
        /\ pc # "error"
        /\ (pc = "done" => records = first_run.records)

-----------------------------------------------------------------------------
(* C16 *)

\* the records of a merge in which file r alone yields entries: heapq.merge
\* passes its entries on in their order, groupby joins neighbours with the
\* same timestamp, and the record of a group holds the body of its last entry
RECURSIVE AloneRecords(_, _, _)
AloneRecords(es, r, acc) ==
    IF es = <<>> THEN acc
    ELSE LET e == Head(es)
         IN  IF acc # <<>> /\ Last(acc).key = e.ts
             THEN AloneRecords(Tail(es), r,
                               [acc EXCEPT ![Len(acc)].cols[r] = e.body])
             ELSE AloneRecords(Tail(es), r,
                               Append(acc, [NewLineDict(Len(acc) + 1, e.ts)
                                               EXCEPT !.cols[r] = e.body]))

\* what an empty file s contributes and leaves alone: nothing reaches the
\* merge from it, its column is empty in every record, and a finished merge
\* has the records the other file gives alone
EmptyContributesNothing(s) ==
    /\ entries[s] = <<>> /\ emitted[s] = <<>> /\ heads[s] = NoEntry
    /\ \A k \in 1..Len(AllRecords) : AllRecords[k].cols[s] = <<>>
    /\ (pc = "done" =>
           /\ status[s] = "done"
           /\ \A r \in Sources \ {s} : records = AloneRecords(entries[r], r, <<>>))

\* C16 as stated: an empty file is valid in every mode; it causes no error,
\* contributes nothing and the other file is merged as usual.
C16_EmptySourceValid ==
    \A s \in Sources :
        lines[s] = <<>> =>
            /\ (pc = "error" => \E r \in Sources \ {s} : NoFormatDetected(r))
            /\ EmptyContributesNothing(s)

\* C16: an empty file is valid in every mode but auto-clip with the empty file
\* as the reference (first) file, which is rejected with an error naming it
\* before any record; otherwise it causes no error, contributes nothing and
\* the other file is merged as usual.
C16_EmptySourceValidButReference ==
    \A s \in Sources :
        lines[s] = <<>> =>
            /\ (pc = "error" =>
                   \/ \E r \in Sources \ {s} : NoFormatDetected(r)
                   \/ (autoclip /\ lines[1] = <<>> /\ error = NoTimestampsError
                          /\ 1 \in error.file_names /\ records = <<>>))
            /\ ((autoclip /\ lines[1] = <<>> /\ pc # "start" /\ ~NoFormatDetected(2))
                   => (pc = "error" /\ error = NoTimestampsError))
            /\ EmptyContributesNothing(s)

\* a merge is done in which the second file is empty, under a window given by
\* --end, and the first file gave a record
C16_Witness ==
    /\ pc = "done"
    /\ lines[2] = <<>>
    /\ lines[1] # <<>>
    /\ time_clip = "early_exit"
    /\ records # <<>>

-----------------------------------------------------------------------------
(* C21 *)

\* the entries file s has yielded at timestamp T
EntriesAt(s, T) == {k \in 1..Len(entries[s]) : entries[s][k].ts = T}

\* C21 as stated: in a finished merge every record has one column per file,
\* the column of a file with an entry at the timestamp of the record is the
\* body of such an entry, and the column of a file without one is empty.
C21_ColumnHoldsEntry ==
    pc = "done" =>
        \A k \in 1..Len(records) :
            /\ DOMAIN records[k].cols = Sources
            /\ \A s \in Sources :
                   IF EntriesAt(s, records[k].key) = {}
                   THEN records[k].cols[s] = <<>>
                   ELSE \E e \in EntriesAt(s, records[k].key) :
                            entries[s][e].body = records[k].cols[s]

\* C21, amended: every record has one column per file; a column that is not
\* empty is the body of an entry of its file at exactly the timestamp of the
\* record, a file without an entry at that timestamp has an empty column, and
\* in a finished merge the column of a file with an entry at the timestamp is
\* the body of such an entry when the record is the only one with that timestamp.
C21_ColumnsPerSource ==
    \A k \in 1..Len(AllRecords) :
        LET rec == AllRecords[k]
        IN  /\ DOMAIN rec.cols = Sources
            /\ \A s \in Sources :
                   /\ rec.cols[s] # <<>> =>
                          \E e \in EntriesAt(s, rec.key) : entries[s][e].body = rec.cols[s]
                   /\ EntriesAt(s, rec.key) = {} => rec.cols[s] = <<>>
                   /\ (/\ pc = "done"
                       /\ EntriesAt(s, rec.key) # {}
                       /\ Cardinality(RecordsAt(rec.key)) = 1) =>
                          \E e \in EntriesAt(s, rec.key) : entries[s][e].body = rec.cols[s]

\* a finished merge has a record at a timestamp where the first file has an
\* entry and the second has none, after a record that holds entries of both
C21_Witness ==
    /\ pc = "done"
    /\ Len(records) >= 2
    /\ records[1].cols[1] # <<>> /\ records[1].cols[2] # <<>>
    /\ records[2].cols[1] # <<>> /\ records[2].cols[2] = <<>>
    /\ EntriesAt(2, records[2].key) = {}
    /\ Cardinality(RecordsAt(records[1].key)) = 1

-----------------------------------------------------------------------------
(* C22 *)

\* the rows at the timestamp, and the rows after it
RowsAt(target) ==
    {r \in 0..(Len(merged_log_lines_table) - 1) : merged_log_lines_table[r + 1] = target}
RowsAfter(target) ==
    {r \in 0..(Len(merged_log_lines_table) - 1) : merged_log_lines_table[r + 1] > target}

\* C22: asking for a timestamp moves the cursor, from whatever row it is on, to
\* a row with that timestamp, or when there is none to the first row after it.
C22_GotoTimestamp ==
    [][\A target \in ViewStamps :
          MoveCursorToTimestamp(target) =>
              IF RowsAt(target) # {} THEN cursor_row' \in RowsAt(target)
              ELSE IF RowsAfter(target) # {}
              THEN cursor_row' \in RowsAfter(target)
                   /\ \A r \in RowsAfter(target) : cursor_row' <= r
              ELSE TRUE]_vars

-----------------------------------------------------------------------------
(* C23 *)

\* C23: the reorderer of a file stops reading, and signals the end, only when
\* every group of the file has been read; it signals the end only with an
\* empty buffer.
C23_ReordererTermination ==
    \A s \in Sources :
        /\ seq_consumed[s] => seq_pos[s] = Len(Groups(s))
        /\ status[s] = "done" =>
               (seq_pos[s] = Len(Groups(s)) /\ lookahead_buffer[s] = <<>>)

-----------------------------------------------------------------------------
(* C24 *)

\* places i..j of the merged sequence lie in one merged group: groupby joins
\* neighbours of equal timestamp
OneGroup(i, j) == \A k \in i..j : merged[k].ts = merged[i].ts

\* the entries file s has had merged, in the order of the merge
MergedOf(s) == SelectSeq(merged, LAMBDA e : e.src = s)

\* C24: within a merged group the entries come in the order of the files on
\* the command line, and the entries of one file are merged in the order the
\* file yielded them.
C24_StableTieBreak ==
    /\ \A i, j \in 1..Len(merged) :
           (i < j /\ OneGroup(i, j)) => merged[i].src <= merged[j].src
    /\ \A s \in Sources :
           /\ Len(MergedOf(s)) <= Len(entries[s])
           /\ \A k \in 1..Len(MergedOf(s)) :
                  /\ MergedOf(s)[k].ts = entries[s][k].ts
                  /\ MergedOf(s)[k].body = entries[s][k].body

\* both files have an entry in one merged group that is not the first, and
\* the first file has had more than one entry merged
C24_Witness ==
    /\ pc = "done"
    /\ \E i \in 2..(Len(merged) - 1) :
           /\ merged[i].ts = merged[i + 1].ts
           /\ merged[i].src = 1 /\ merged[i + 1].src = 2
    /\ Len(MergedOf(1)) >= 2

-----------------------------------------------------------------------------
(* C25 *)

\* the lines (by position in their file) of a sequence of groups
LinesIn(gs) == UNION {{gs[i].lines[j].text : j \in 1..Len(gs[i].lines)} : i \in 1..Len(gs)}

\* C25: the buffer of every reorderer holds at most window groups after its
\* construction and after every pull, and it is all the reorderer holds: the
\* lines of the groups read so far are those returned and those in the buffer.
C25_BoundedLookahead ==
    \A s \in Sources :
        /\ Len(lookahead_buffer[s]) <= window
        /\ seq_pos[s] - Len(emitted[s]) >= Len(lookahead_buffer[s])
        /\ LinesIn(SubSeq(Groups(s), 1, seq_pos[s]))
               = LinesIn(emitted[s]) \cup LinesIn(lookahead_buffer[s])
        /\ LinesIn(emitted[s]) \cap LinesIn(lookahead_buffer[s]) = {}

\* the reorderer of a file with more groups than the window has returned a
\* group, has read a further group, and its buffer is full again
C25_Witness ==
    /\ Len(Groups(1)) > window
    /\ seq_pos[1] > window
    /\ Len(emitted[1]) >= 1
    /\ Len(lookahead_buffer[1]) = window

-----------------------------------------------------------------------------
(* C26 *)

\* every timestamp format of the configuration holds the placeholder
AllTemplatesValid ==
    \A i \in 1..Len(config.timestamp_formats) : config.timestamp_formats[i].placeholder

\* the applications made so far in this process
ApplicationsMade == IF pc = "config" THEN run - 1 ELSE run

\* C26: when every timestamp format is valid, making an application never
\* fails for want of a class name, and after any number of applications the
\* registry holds, for every format registered, one custom class for each
\* built-in class in order, none derived from a custom class.
C26_CustomRegistration ==
    AllTemplatesValid =>
        /\ error # SuffixesExhausted
        /\ Len(custom_transformers)
               = ApplicationsMade * Len(config.timestamp_formats) * Len(BuiltinTransformers)
        /\ \A k \in 1..Len(custom_transformers) :
               custom_transformers[k].base
                   = BuiltinTransformers[((k - 1) % Len(BuiltinTransformers)) + 1]

-----------------------------------------------------------------------------
(* C27 *)

\* WindowedSort.__next__ and the loop body of the collapser, repeated on the
\* groups g of one file until the reorderer ends or the time filter breaks:
\* the entries the collapser yields
RECURSIVE DrainAlone(_, _, _, _, _, _)
DrainAlone(g, pos, buf, llk, consumed, out) ==
    LET reads == ~consumed /\ pos < Len(g)
        new_line == g[pos + 1]
        llk1 == IF llk = NoTs THEN new_line.key ELSE llk
        late == new_line.key <= llk1
        buf1 == IF ~reads THEN buf
                ELSE IF late THEN InsertOrMerge(buf, new_line) ELSE Append(buf, new_line)
        llk2 == IF ~reads THEN llk ELSE IF late THEN llk1 ELSE new_line.key
    IN  IF buf1 = <<>> THEN out
        ELSE LET verdict == TimeFilter(Head(buf1).key)
                 entry == [ts |-> Head(buf1).key, body |-> LogBody(Head(buf1).lines)]
             IN  IF verdict = "break" THEN out
                 ELSE DrainAlone(g, IF reads THEN pos + 1 ELSE pos, Tail(buf1), llk2,
                                 IF reads THEN consumed ELSE TRUE,
                                 IF verdict = "yield" THEN Append(out, entry) ELSE out)

\* the entries of a file with the lines ls under the configuration of the run,
\* computed from ls alone
EntriesAlone(ls) ==
    LET tr == SelectSeq([i \in 1..Len(ls) |-> [ts |-> ls[i], text |-> i]], RawTimeClip)
        g == GroupBy(tr, NewLogLineDetector(tr))
        n == IF Len(g) < window THEN Len(g) ELSE window
        buf == SortAndMerge(SubSeq(g, 1, n))
    IN  DrainAlone(g, n, buf, IF buf = <<>> THEN NoTs ELSE Last(buf).key,
                   InitSeqConsumed(buf), <<>>)

\* C27: without auto-clip, the entries a file has yielded are at every moment
\* the first of the entries its own lines give under the configuration, and
\* all of them when the merge is done, whatever the other file holds.
C27_PerSourceIndependence ==
    ~autoclip =>
        \A s \in Sources :
            LET alone == EntriesAlone(lines[s])
            IN  /\ Len(entries[s]) <= Len(alone)
                /\ entries[s] = SubSeq(alone, 1, Len(entries[s]))
                /\ pc = "done" => entries[s] = alone

\* a finished merge of two files of two entries each, at different timestamps
C27_Witness ==
    /\ pc = "done"
    /\ ~autoclip
    /\ Len(entries[1]) = 2 /\ Len(entries[2]) = 2
    /\ entries[1][1].ts # entries[2][1].ts
    /\ lines[1] # lines[2]

-----------------------------------------------------------------------------
(* C28 *)

\* C28: a group of merged entries of one timestamp, as handed to the assembly
\* of a record, never holds two entries of one source.
C28_OneEntryPerSource ==
    \A i, j \in 1..Len(merged) :
        (i < j /\ OneGroup(i, j)) => merged[i].src # merged[j].src

-----------------------------------------------------------------------------
(* C29 *)

\* the keys of a buffer are strictly increasing
StrictlyIncreasing(buf) ==
    \A i, j \in 1..Len(buf) : i < j => buf[i].key < buf[j].key

\* C29: every reorderer's lookahead buffer is sorted by strictly increasing
\* timestamp after construction and after every pull, and last_line_key is
\* set and not smaller than any buffered timestamp whenever the buffer holds
\* a group.
C29_BufferSorted ==
    \A s \in Sources :
        /\ StrictlyIncreasing(lookahead_buffer[s])
        /\ \A i \in 1..Len(lookahead_buffer[s]) :
               /\ last_line_key[s] # NoTs
               /\ lookahead_buffer[s][i].key <= last_line_key[s]

\* a pull has merged a late group into a buffered group that is not the last,
\* and the buffer holds two groups
C29_Witness ==
    \E s \in Sources :
        /\ Len(lookahead_buffer[s]) >= 2
        /\ Len(emitted[s]) >= 1
        /\ \E i \in 1..(Len(lookahead_buffer[s]) - 1) :
               \E a, b \in 1..Len(lookahead_buffer[s][i].lines) :
                   /\ a < b
                   /\ lookahead_buffer[s][i].lines[b].text > window
                   /\ lookahead_buffer[s][i].lines[a].text + 1 < lookahead_buffer[s][i].lines[b].text

-----------------------------------------------------------------------------
(* C30 *)

\* C30: after every pull of a reorderer that still reads and whose input has
\* groups left, the lookahead buffer holds exactly window groups.
C30_LookaheadNeverShrinks ==
    \A s \in Sources :
        (/\ status[s] = "active"
         /\ emitted[s] # <<>>
         /\ ~seq_consumed[s]
         /\ seq_pos[s] < Len(Groups(s)))
        => Len(lookahead_buffer[s]) = window

====
